---- MODULE Spec2Model ----
(***************************************************************************)
(* Moneta agents backend: the session Handler (foundry/handler.py), its    *)
(* entry point (app.py) and the handoff Orchestrators                      *)
(* (foundry/orchestrators/*.py).                                           *)
(*                                                                         *)
(* Scheduling model: every request is an asyncio task.  A task is modelled *)
(* by one action per block of code between two suspension points; the      *)
(* blocks of the Handler are additionally cut where the Handler calls the  *)
(* Orchestrator and where the Orchestrator returns, which only adds        *)
(* interleavings.  _ensure_initialized contains no suspension point in any *)
(* of the three orchestrators (create_foundry_agents is declared async but *)
(* awaits nothing), so it is part of one block.                            *)
(*                                                                         *)
(* Python's None and the empty string are both written "" where the code   *)
(* only tests truthiness; chat id 0 stands for "no chat id".               *)
(***************************************************************************)
EXTENDS Integers, Sequences, FiniteSets, TLC

\* ---------------------------------------------------------------- bounds
MaxEvents == 3       \* events logged for one workflow run (ReduceSpec)
MaxRequests == 2     \* chat turns admitted over a behaviour
MaxChats == 2        \* chat ids the store generates over a behaviour

Procs == {"t1", "t2"}                 \* concurrently running request tasks
Users == {"u1"}
UserMessages == {"m1", "m2"}
Texts == {"", "a", "b"}               \* texts an event may carry

\* ------------------------------------------------------ orchestrator data
OrchestratorClasses == {"OpenAIBanking", "FoundryBanking", "OpenAIInsurance"}

IsBanking(class) == class \in {"OpenAIBanking", "FoundryBanking"}

\* responding_agent = "bank-coordinator" / "ins-coordinator"
CoordinatorOf(class) == IF IsBanking(class) THEN "bank-coordinator" ELSE "ins-coordinator"

\* one specialist per workflow is enough to tell the coordinator from a specialist
SpecialistOf(class) == IF IsBanking(class) THEN "bank-crm-agent" ELSE "ins-crm-agent"

\* the names of the agents the workflow of an orchestrator is built from
AgentsOf(class) ==
    IF IsBanking(class)
    THEN {"bank-coordinator", "bank-crm-agent", "bank-cio-agent", "bank-funds-agent",
          "bank-news-agent"}
    ELSE {"ins-coordinator", "ins-crm-agent", "ins-policies-agent"}

FallbackApology == "I apologize, but I was unable to generate a response."

ErrorMessage == "I encountered an error while processing your request. Please try again."

NoMessageReply(class) ==
    IF IsBanking(class) THEN "I didn't receive a message. How can I help you?"
    ELSE "I didn't receive a message. How can I help you with insurance?"

\* Python's `a or b` on strings
Or(a, b) == IF a # "" THEN a ELSE b

\* a stored message, a dict with the keys role, name, content
Msg(role, name, content) == [role |-> role, name |-> name, content |-> content]

\* a translation that hands every message to the engine as a user message
ChatMessageAsUser(role, text, author_name) ==
    [role |-> "user", text |-> text, author_name |-> author_name]

\* ChatMessage(role=, text=, author_name=)
ChatMessage(role, text, author_name) == [role |-> role, text |-> text, author_name |-> author_name]

\* ----------------------------------------------------------- the events
(* An event of run_stream.  shape says what event.data is:                 *)
(*   "none"           data is None                                         *)
(*   "notext"         data has no attribute text (e.g. a list)            *)
(*   "text"           data.text = text                                     *)
(*   "agent_response" data.agent_response.text = text (handoff request)   *)
(*   "no_response"    data.agent_response missing or None                  *)
(*   "conversation"   data.conversation = conv (handoff request)          *)
(* src is source_executor_id / executor_id ("" for None).                  *)
Event(type, src, shape, text, conv) ==
    [type |-> type, src |-> src, shape |-> shape, text |-> text, conv |-> conv]

EventTypes == {"RequestInfoEvent", "ExecutorCompletedEvent", "AgentRunEvent", "WorkflowOutputEvent"}

\* conversations a handoff request of the insurance workflow may carry
RequestConversations(class) ==
    LET u == ChatMessage("user", "m1", "user")
        a(t) == ChatMessage("assistant", t, SpecialistOf(class))
        n(t) == ChatMessage("assistant", t, "")
    IN  { <<>>, <<u>>, <<u, a("a"), u>>, <<u, n("b"), a("")>> }

\* events of one type whose data is None, or carries a text and a source
PlainEvents(class, type) ==
    { Event(type, "", "none", "", <<>>),
      Event(type, SpecialistOf(class), "text", "a", <<>>),
      Event(type, "", "text", "b", <<>>) }

\* the events a workflow of the class may emit
EventsOf(class) ==
    LET request ==
            IF IsBanking(class)
            THEN { Event("RequestInfoEvent", "", "no_response", "", <<>>),
                   Event("RequestInfoEvent", "", "agent_response", "", <<>>),
                   Event("RequestInfoEvent", SpecialistOf(class), "agent_response", "a", <<>>),
                   Event("RequestInfoEvent", "", "agent_response", "b", <<>>) }
            ELSE { Event("RequestInfoEvent", SpecialistOf(class), "conversation", "", c) :
                            c \in RequestConversations(class) }
    IN  request
        \cup PlainEvents(class, "ExecutorCompletedEvent")
        \cup { Event("ExecutorCompletedEvent", "", "text", "", <<>>) }
        \cup PlainEvents(class, "AgentRunEvent")
        \cup PlainEvents(class, "WorkflowOutputEvent")
        \cup { Event("WorkflowOutputEvent", "", "notext", "", <<>>) }

\* index of the last assistant message with non-empty text, 0 if none:
\* `for msg in reversed(conversation): if assistant: if text: ...; break`
LastAssistantIndex(conv) ==
    LET idx == { i \in 1..Len(conv) : conv[i].role = "assistant" /\ conv[i].text # "" }
    IN  IF idx = {} THEN 0 ELSE CHOOSE i \in idx : \A j \in idx : j <= i

\* the text an event carries, whatever its type
EventText(e) ==
    CASE e.shape \in {"text", "agent_response"} -> e.text
      [] e.shape = "conversation" ->
            IF LastAssistantIndex(e.conv) = 0 THEN "" ELSE e.conv[LastAssistantIndex(e.conv)].text
      [] OTHER -> ""

\* ------------------------------------------------- the event reduction
\* acc = [final_response, responding_agent]
Acc(final_response, responding_agent) ==
    [final_response |-> final_response, responding_agent |-> responding_agent]

\* body of `async for event in self._workflow.run_stream(...)`, banking
BankingOnEvent(acc, e) ==
    IF e.type = "RequestInfoEvent"
    THEN IF e.shape = "agent_response" /\ e.text # ""
         THEN Acc(e.text, Or(e.src, "bank-coordinator"))
         ELSE acc
    ELSE IF e.type = "ExecutorCompletedEvent"
    THEN IF e.shape = "text" /\ e.text # ""
         THEN Acc(e.text, Or(e.src, "bank-coordinator"))
         ELSE acc
    ELSE acc

\* body of the same loop, insurance
InsuranceOnEvent(acc, e) ==
    IF e.type = "RequestInfoEvent"
    THEN IF e.shape = "conversation" /\ LastAssistantIndex(e.conv) # 0
         THEN LET m == e.conv[LastAssistantIndex(e.conv)]
              IN  Acc(m.text, Or(m.author_name, e.src))
         ELSE acc
    ELSE IF e.type = "AgentRunEvent"
    THEN IF e.shape = "text" /\ e.text # ""
         THEN Acc(e.text, Or(e.src, "ins-coordinator"))
         ELSE acc
    ELSE IF e.type = "WorkflowOutputEvent"
    THEN IF e.shape = "text" /\ e.text # ""
         THEN Acc(e.text, e.src)
         ELSE acc
    ELSE acc

ReduceEvent(class, acc, e) ==
    IF IsBanking(class) THEN BankingOnEvent(acc, e) ELSE InsuranceOnEvent(acc, e)

\* the reply content without the fallback
ContentWithoutFallback(final_response) == final_response

\* `final_response or 'I apologize, ...'`
ContentOrFallback(final_response) == Or(final_response, FallbackApology)

\* the reply returned after the loop
ReducedReply(acc) == Msg("assistant", acc.responding_agent, ContentOrFallback(acc.final_response))

\* the reply of the except branch
ErrorReply == Msg("assistant", "coordinator", ErrorMessage)

\* the reply returned when no message has content
EmptyReply(class) == Msg("assistant", "coordinator", NoMessageReply(class))

\* conversation history -> ChatMessage list; messages without content are
\* skipped, a message without role (role "") gets `msg.get('role', 'user')`
RECURSIVE ToChatMessages(_)
ToChatMessages(msgs) ==
    IF msgs = <<>> THEN <<>>
    ELSE LET m == Head(msgs)
         IN  IF m.content # ""
             THEN <<ChatMessage(Or(m.role, "user"), m.content, m.name)>>
                      \o ToChatMessages(Tail(msgs))
             ELSE ToChatMessages(Tail(msgs))

\* ------------------------------------------------------------ the state
VARIABLES
    use_foundry,    \* Handler.use_foundry
    use_case,       \* the use case whose store container and orchestrator are followed
    endpoint,       \* TRUE iff the endpoint environment variable of the orchestrators is set
    orch,           \* Handler.orchestrators: use case -> [initialized, workflow]
    build_count,    \* use case -> number of workflows built so far (build counter)
    db,             \* the persistence store: user id -> user record
    next_chat_id,   \* the next id generate_chat_id returns
    requests,       \* chat turns admitted so far
    pc,             \* task -> position in the code
    task,           \* task -> locals of http_trigger / handle_request
    call,           \* task -> locals of process_conversation
    events,         \* the events of the current run, in emission order (ReduceSpec only)
    conversation_context, \* tracing: the entry of _CONVERSATION_ID_HOLDER for the
                          \* thread of the event loop, which runs every task
    tool,           \* the capability functions: their collaborators, the search
                    \* singletons created so far, the last call and its outcome
    o1              \* O1BankingOrchestrator.call_gpt4o: position and message list

vars == <<use_foundry, use_case, endpoint, orch, build_count, db, next_chat_id,
          requests, pc, task, call, events, conversation_context, tool, o1>>

\* the state outside the request path of the foundry handler
sideVars == <<tool, o1>>

configVars == <<use_foundry, use_case, endpoint>>

storeVars == <<db, next_chat_id>>

Usecases == {"fsi_banking", "fsi_insurance"}

\* Handler.__init__: the orchestrator class registered for a use case
ClassOf(usecase) ==
    IF usecase = "fsi_banking"
    THEN IF use_foundry THEN "FoundryBanking" ELSE "OpenAIBanking"
    ELSE "OpenAIInsurance"

\* use cases whose orchestrator class is modelled (FoundryInsuranceOrchestrator is not)
ModelledUsecases(foundry) == IF foundry THEN {"fsi_banking"} ELSE Usecases

\* _CONVERSATION_ID_HOLDER.get(thread_id, {}) of a thread without entry
NoContext == [conversation_id |-> 0, user_id |-> "", mode |-> ""]

\* set_conversation_context(conversation_id, user_id, mode): the entry stored
SetConversationContext(conversation_id, user_id, mode) ==
    [conversation_id |-> conversation_id, user_id |-> user_id, mode |-> mode]

\* the mode an orchestrator class passes to set_conversation_context
ModeOf(class) == IF class = "FoundryBanking" THEN "foundry" ELSE "azure_openai"

\* the context process_conversation sets for the call record c
ContextOf(c) == SetConversationContext(c.session_id, c.user_id, ModeOf(ClassOf(c.usecase)))

\* the collaborators of the capability functions, all working
WorkingEnv ==
    [search_config |-> TRUE, tracing |-> TRUE, search |-> TRUE, data_file |-> "ok"]

\* no capability function was called yet
NoTool == [env |-> WorkingEnv, instances |-> {}, function |-> "", result |-> ""]

\* call_gpt4o is not running
NoLoop ==
    [pc |-> "idle", usecase_type |-> "", messages |-> <<>>, truncated |-> FALSE,
     completions |-> 0]

NoCall ==
    [usecase |-> "", user_id |-> "", session_id |-> 0, conversation |-> <<>>, chat_messages |-> <<>>, final_response |-> "",
     responding_agent |-> "", reply |-> Msg("", "", ""), path |-> "", workflow |-> 0]

NoTask ==
    [user_id |-> "", chat_id |-> 0, user_message |-> "", load_history |-> FALSE,
     usecase_type |-> "", new_chat |-> FALSE, user_data |-> << >>,
     conversation_messages |-> <<>>, status_code |-> 0]

\* Handler.__init__ and the orchestrators' __init__: nothing is built yet
Init ==
    /\ use_foundry \in BOOLEAN
    /\ use_case \in ModelledUsecases(use_foundry)
    /\ endpoint \in BOOLEAN
    /\ orch = [u \in Usecases |-> [initialized |-> FALSE, workflow |-> 0]]
    /\ build_count = [u \in Usecases |-> 0]
    /\ db = << >>
    /\ next_chat_id = 1
    /\ requests = 0
    /\ pc = [p \in Procs |-> "idle"]
    /\ task = [p \in Procs |-> NoTask]
    /\ call = [p \in Procs |-> NoCall]
    /\ events = <<>>
    /\ conversation_context = NoContext
    /\ tool = NoTool
    /\ o1 = NoLoop

\* ----------------------------------------------- process_conversation
\* _ensure_initialized raises ValueError when the endpoint is not configured
EnsureInitializedRaises(usecase) == ~orch[usecase].initialized /\ ~endpoint

\* _ensure_initialized without its early return
NeedsBuildAlways(usecase) == TRUE

\* `if self._initialized: return`
NeedsBuild(usecase) == ~orch[usecase].initialized

\* _ensure_initialized: the orchestrator after the call
EnsureInitialized(usecase) ==
    IF NeedsBuild(usecase)
    THEN [initialized |-> TRUE, workflow |-> build_count[usecase] + 1]
    ELSE orch[usecase]

\* process_conversation on the call record c up to the first event of
\* set_conversation_context or the opening of the span raises while the
\* tracing sink fails: `except Exception` returns the error reply and
\* `finally` clears the context;
\* run_stream: _ensure_initialized, the translation of the history, the call of
\* run_stream on the translated messages (chat_messages is what the engine is
\* handed); the result is the position reached with the call and the
\* orchestrators as they are then
BeginConversation(c) ==
    LET uc == c.usecase
        msgs == ToChatMessages(c.conversation)
        built == [orch EXCEPT ![uc] = EnsureInitialized(uc)]
        count == [build_count EXCEPT ![uc] = IF NeedsBuild(uc) THEN @ + 1 ELSE @]
    IN  IF EnsureInitializedRaises(uc)
        THEN [pc |-> "raised", call |-> [c EXCEPT !.path = "ValueError"],
              orch |-> orch, build_count |-> build_count,
              context |-> conversation_context]
        ELSE IF msgs = <<>>
        THEN [pc |-> "returned",
              call |-> [c EXCEPT !.reply = EmptyReply(ClassOf(uc)), !.path = "no_message"],
              orch |-> built, build_count |-> count,
              context |-> conversation_context]
        ELSE IF ~tool.env.tracing
        THEN [pc |-> "returned",
              call |-> [c EXCEPT !.conversation = <<>>, !.chat_messages = msgs,
                                 !.reply = ErrorReply, !.path = "error"],
              orch |-> built, build_count |-> count,
              context |-> NoContext]
        ELSE [pc |-> "streaming",
              call |-> [c EXCEPT !.conversation = <<>>,
                                 !.chat_messages = msgs,
                                 !.final_response = "",
                                 !.responding_agent = CoordinatorOf(ClassOf(uc)),
                                 !.workflow = built[uc].workflow],
              orch |-> built, build_count |-> count,
              context |-> ContextOf(c)]

\* a direct call of process_conversation runs up to its first suspension
ProcessConversationStart(p) ==
    /\ pc[p] = "call"
    /\ LET s == BeginConversation(call[p])
       IN  /\ pc' = [pc EXCEPT ![p] = s.pc]
           /\ call' = [call EXCEPT ![p] = s.call]
           /\ orch' = s.orch
           /\ build_count' = s.build_count
           /\ conversation_context' = s.context
    /\ UNCHANGED <<sideVars, configVars, storeVars, requests, task, events>>

\* the events considered where only the reply of a turn matters: the handoff
\* requests that carry no text or the text "a"
TurnEvents(class) ==
    { e \in EventsOf(class) : e.type = "RequestInfoEvent" /\ EventText(e) \in {"", "a"} }

\* one iteration of `async for event in self._workflow.run_stream(chat_messages)`;
\* the event is one of evs, and is logged when logged is TRUE
OnEvent(p, evs, logged) ==
    /\ pc[p] = "streaming"
    /\ \E e \in evs :
         LET acc == ReduceEvent(ClassOf(call[p].usecase),
                                Acc(call[p].final_response, call[p].responding_agent), e)
         IN  /\ call' = [call EXCEPT ![p].final_response = acc.final_response,
                                     ![p].responding_agent = acc.responding_agent]
             /\ IF logged
                THEN Len(events) < MaxEvents /\ events' = Append(events, e)
                ELSE UNCHANGED events
    /\ UNCHANGED <<sideVars, configVars, orch, build_count, storeVars, requests, pc, task,
                   conversation_context>>

\* the reply built from final_response and responding_agent when the stream
\* ends; session_span.set_attribute raises while the tracing sink fails, and
\* `except Exception` returns the error reply
EndReply(p) ==
    IF tool.env.tracing
    THEN ReducedReply(Acc(call[p].final_response, call[p].responding_agent))
    ELSE ErrorReply

\* the stream of a direct call ends
StreamEnd(p) ==
    /\ pc[p] = "streaming"
    /\ pc' = [pc EXCEPT ![p] = "returned"]
    /\ call' = [call EXCEPT ![p].reply = EndReply(p),
                            ![p].path = IF tool.env.tracing THEN "reduced" ELSE "error"]
    /\ conversation_context' = NoContext
    /\ UNCHANGED <<sideVars, configVars, orch, build_count, storeVars, requests, task, events>>

\* the stream of a direct call raises: `except Exception` returns the error reply
StreamRaise(p) ==
    /\ pc[p] = "streaming"
    /\ pc' = [pc EXCEPT ![p] = "returned"]
    /\ call' = [call EXCEPT ![p].reply = ErrorReply, ![p].path = "error"]
    /\ conversation_context' = NoContext
    /\ UNCHANGED <<sideVars, configVars, orch, build_count, storeVars, requests, task, events>>

\* the stream neither yields another event nor ends; nothing in the loop bounds the wait
StreamStall(p) ==
    /\ pc[p] = "streaming"
    /\ pc' = [pc EXCEPT ![p] = "stalled"]
    /\ UNCHANGED <<sideVars, configVars, orch, build_count, storeVars, requests, task, call, events,
                   conversation_context>>

\* conversations a direct caller of process_conversation passes
DirectConversations ==
    { <<>>,
      <<Msg("user", "user", "")>>,
      <<Msg("user", "user", "m1"), Msg("assistant", "bank-crm-agent", "a"),
        Msg("user", "user", "m2")>>,
      <<Msg("tool", "fetch_news", "a"), Msg("", "user", "m1")>> }

\* a caller invokes process_conversation(user_id, conversation_messages, session_id)
\* with a conversation of convs and a session id of sessions
CallWith(p, convs, sessions) ==
    /\ pc[p] \in {"idle", "returned", "raised"}
    /\ \E conv \in convs, user_id \in Users, session_id \in sessions :
         call' = [call EXCEPT ![p] = [NoCall EXCEPT !.usecase = use_case,
                                                    !.user_id = user_id,
                                                    !.session_id = session_id,
                                                    !.conversation = conv]]
    /\ pc' = [pc EXCEPT ![p] = "call"]
    /\ events' = <<>>
    /\ UNCHANGED <<sideVars, configVars, orch, build_count, storeVars, requests, task,
                   conversation_context>>

DirectCall(p, sessions) == CallWith(p, DirectConversations, sessions)

\* ------------------------------------------------- the workflow engine
(* HandoffBuilder and the workflow it builds belong to the agent_framework  *)
(* package, which is not among the sources.  What the orchestrators         *)
(* configure (participants, start agent, termination condition) is taken    *)
(* from their code; the steps of a run are modelled from section 4.1 of the *)
(* specification.                                                           *)

\* the bound of `... >= 10` in the termination condition
TerminationBound == 10

\* `sum(1 for msg in conv if msg.role.value == "user")`
RECURSIVE UserMessageSum(_)
UserMessageSum(conv) ==
    IF conv = <<>> THEN 0
    ELSE (IF Head(conv).role = "user" THEN 1 ELSE 0) + UserMessageSum(Tail(conv))

\* the termination condition with `>` for `>=`
TerminationConditionStrict(conv) == UserMessageSum(conv) > TerminationBound

\* `lambda conv: sum(1 for msg in conv if msg.role.value == "user") >= 10`
TerminationCondition(conv) == UserMessageSum(conv) >= TerminationBound

\* a stored conversation of n user turns, each but the last one answered
RECURSIVE History(_)
History(n) ==
    IF n = 0 THEN <<>>
    ELSE IF n = 1 THEN <<Msg("user", "user", "m1")>>
    ELSE History(n - 1) \o <<Msg("assistant", "bank-crm-agent", "a"), Msg("user", "user", "m1")>>

\* a stored conversation of one user turn after n replies
RECURSIVE Replies(_)
Replies(n) ==
    IF n = 0 THEN <<Msg("user", "user", "m1")>>
    ELSE <<Msg("assistant", "bank-crm-agent", "a")>> \o Replies(n - 1)

\* the conversations the engine is run on: around the termination bound, and
\* one that is long without user turns
EngineConversations ==
    { History(1), History(TerminationBound - 1), History(TerminationBound),
      History(TerminationBound + 1), Replies(TerminationBound) }

\* a reply was produced in the run and the termination condition holds of the
\* running message history: the run has ended
RunEnded(p) ==
    /\ \E i \in 1..Len(events) : EventText(events[i]) # ""
    /\ TerminationCondition(call[p].chat_messages)

\* the event by which the engine surfaces the reply text of agent
ReplyEvent(class, agent, text) ==
    IF IsBanking(class)
    THEN Event("RequestInfoEvent", agent, "agent_response", text, <<>>)
    ELSE Event("AgentRunEvent", agent, "text", text, <<>>)

\* the engine emits event e, which adds the messages added to the running
\* history; the loop body of process_conversation handles the event
EngineStep(p, e, added) ==
    /\ pc[p] = "streaming"
    /\ ~RunEnded(p)
    /\ Len(events) < MaxEvents
    /\ LET acc == ReduceEvent(ClassOf(call[p].usecase),
                              Acc(call[p].final_response, call[p].responding_agent), e)
       IN  call' = [call EXCEPT ![p].final_response = acc.final_response,
                                ![p].responding_agent = acc.responding_agent,
                                ![p].chat_messages = @ \o added]
    /\ events' = Append(events, e)
    /\ UNCHANGED <<sideVars, configVars, orch, build_count, storeVars, requests, pc, task,
                   conversation_context>>

\* the active agent, whichever it is, produces a direct reply
AgentReply(p) ==
    \E agent \in AgentsOf(ClassOf(call[p].usecase)) :
        EngineStep(p, ReplyEvent(ClassOf(call[p].usecase), agent, "a"),
                   <<ChatMessage("assistant", "a", agent)>>)

\* the active agent delegates: an event without text, no message added
Delegation(p) ==
    EngineStep(p, Event("ExecutorCompletedEvent", "", "none", "", <<>>), <<>>)

\* ------------------------------------------------- the persistence store
(* ConversationStore (conversation_store.py) is not among the sources; its   *)
(* four operations are modelled from the interface the specification gives. *)
(* A user record is [chat_histories |-> chat id -> [messages |-> <<...>>]]. *)

\* read_user_info(user_id) finds a record
UserExists(store, user_id) == user_id \in DOMAIN store

\* create_user(user_id, user_data)
CreateUser(store, user_id, user_data) ==
    [u \in DOMAIN store \cup {user_id} |-> IF u = user_id THEN user_data ELSE store[u]]

\* update_user_info(user_id, user_data): the whole record is replaced
UpdateUserInfo(store, user_id, user_data) ==
    [u \in DOMAIN store \cup {user_id} |-> IF u = user_id THEN user_data ELSE store[u]]

\* `user_data = {'chat_histories': {}}`
EmptyUserData == [chat_histories |-> << >>]

\* the session map replaced by a map of the one session
WithChatOnly(user_data, chat_id, messages) ==
    [chat_histories |-> [c \in {chat_id} |-> [messages |-> messages]]]

\* user_data['chat_histories'][chat_id] = {'messages': messages}
WithChat(user_data, chat_id, messages) ==
    [chat_histories |->
        [c \in DOMAIN user_data.chat_histories \cup {chat_id} |->
            IF c = chat_id THEN [messages |-> messages] ELSE user_data.chat_histories[c]]]

\* ------------------------------------------------------------ the Handler
\* the sessions of a user record as a list of {name, messages}, in key order
RECURSIVE ConversationList(_, _)
ConversationList(chat_histories, ids) ==
    IF ids = {} THEN <<>>
    ELSE LET c == CHOOSE x \in ids : \A y \in ids : x <= y
         IN  <<[name |-> c, messages |-> chat_histories[c].messages]>>
             \o ConversationList(chat_histories, ids \ {c})

\* a load_history that leaves out the sessions without messages
LoadHistoryNonEmpty(store, user_id) ==
    ConversationList(store[user_id].chat_histories,
                     { c \in DOMAIN store[user_id].chat_histories :
                         store[user_id].chat_histories[c].messages # <<>> })

\* Handler.load_history
LoadHistory(store, user_id) ==
    ConversationList(store[user_id].chat_histories, DOMAIN store[user_id].chat_histories)

\* a chat lookup that takes an unknown chat id for an empty chat
ChatFoundAlways(user_data, chat_id) == TRUE

\* `conversation_data = user_data.get('chat_histories', {}).get(chat_id)` is truthy
ChatFound(user_data, chat_id) == chat_id \in DOMAIN user_data.chat_histories

\* conversation_data.get('messages', [])
ChatMessages(user_data, chat_id) ==
    IF chat_id \in DOMAIN user_data.chat_histories
    THEN user_data.chat_histories[chat_id].messages
    ELSE <<>>

\* a new chat that is not written to the store when it is created
PersistNewChatSkipped(store, user_id, user_data) == store

\* `self.history_db.update_user_info(user_id, user_data)` of the new-chat branch
PersistNewChat(store, user_id, user_data) == UpdateUserInfo(store, user_id, user_data)

\* the user turn appended with the reply's role
UserTurnAsAssistant(user_message) == Msg("assistant", "user", user_message)

\* {'role': 'user', 'name': 'user', 'content': user_message}
UserTurn(user_message) == Msg("user", "user", user_message)

\* the keys of Handler.orchestrators
OrchestratorKeys == {"fsi_insurance", "fsi_banking", "deep_research"}

\* an entry point that does not look at the use case beyond its presence
RequestValidFieldsOnly(user_id, user_message, load_history, usecase_type) ==
    /\ user_id # ""
    /\ (load_history \/ user_message # "")
    /\ usecase_type # ""

\* app.py: `if not user_id`, `if load_history is not True and not user_message`,
\* `if not usecase_type`, and the use cases a container is configured for
RequestValid(user_id, user_message, load_history, usecase_type) ==
    /\ user_id # ""
    /\ (load_history \/ user_message # "")
    /\ usecase_type # ""
    /\ usecase_type \in {"fsi_insurance", "fsi_banking"}

\* http_trigger: `if not db.read_user_info(user_id): db.create_user(...)`
EnsureUser(store, user_id) ==
    IF UserExists(store, user_id) THEN store ELSE CreateUser(store, user_id, EmptyUserData)

\* what handle_request hands back to http_trigger: a result with a status
\* code, or an exception
Result(status_code) == [raised |-> FALSE, status_code |-> status_code]

Raised == [raised |-> TRUE, status_code |-> 0]

\* the status mapping with every handler error answered as a validation error
ResultStatusConflated(result) ==
    IF result.raised THEN 500 ELSE IF result.status_code # 200 THEN 400 ELSE 200

\* http_trigger: `except Exception` answers 500, a result is answered with its
\* own status code
ResultStatus(result) == IF result.raised THEN 500 ELSE result.status_code

\* the request of task p is answered with status_code
Answer(p, status_code) ==
    /\ pc' = [pc EXCEPT ![p] = "done"]
    /\ task' = [task EXCEPT ![p] = [NoTask EXCEPT !.status_code = status_code]]
    /\ call' = [call EXCEPT ![p] = NoCall]

\* the requests http_trigger rejects: a field is missing, or no container is
\* configured for the use case
InvalidRequests ==
    { r \in (Users \cup {""}) \X (UserMessages \cup {""}) \X BOOLEAN
                \X {use_case, "", "deep_research"} :
        ~RequestValid(r[1], r[2], r[3], r[4]) }

\* http_trigger rejects the request before the store or the handler is touched
RejectRequest(p) ==
    /\ pc[p] \in {"idle", "done"}
    /\ Answer(p, 400)
    /\ UNCHANGED <<sideVars, configVars, orch, build_count, storeVars, requests, events,
                   conversation_context>>
    /\ InvalidRequests # {}

\* http_trigger and handle_request with load_history: the user record is
\* created if missing, the sessions are read from the store; the data returned
\* is LoadHistory(db', user_id)
HandleLoadHistory(p, user_id, usecase_type) ==
    /\ pc[p] \in {"idle", "done"}
    /\ RequestValid(user_id, "", TRUE, usecase_type)
    /\ db' = EnsureUser(db, user_id)
    /\ Answer(p, ResultStatus(Result(200)))
    /\ UNCHANGED <<sideVars, configVars, orch, build_count, next_chat_id, requests, events,
                   conversation_context>>

\* a load_history request arrives
LoadHistoryRequest(p) ==
    \E user_id \in Users, usecase_type \in {use_case} :
        HandleLoadHistory(p, user_id, usecase_type)

\* the reply put in front of the conversation
WithReplyFirst(conversation_messages, reply) == <<reply>> \o conversation_messages

\* conversation_messages.append(reply)
WithReply(conversation_messages, reply) == Append(conversation_messages, reply)

\* a write that appends the turn to the conversation the store holds now
StoreReplyRereading(store, t, reply) ==
    LET cm == t.conversation_messages
        now == IF t.user_id \in DOMAIN store
                  /\ t.chat_id \in DOMAIN store[t.user_id].chat_histories
               THEN store[t.user_id].chat_histories[t.chat_id].messages
               ELSE SubSeq(cm, 1, Len(cm) - 1)
    IN  UpdateUserInfo(store, t.user_id,
                       WithChat(t.user_data, t.chat_id, now \o <<cm[Len(cm)], reply>>))

\* a write that puts the session into the session map the store holds now
StoreReplySessionOnly(store, t, reply) ==
    UpdateUserInfo(store, t.user_id,
                   WithChat(IF t.user_id \in DOMAIN store THEN store[t.user_id]
                            ELSE t.user_data,
                            t.chat_id, WithReply(t.conversation_messages, reply)))

\* `user_data['chat_histories'][chat_id] = {'messages': conversation_messages}`
\* with the reply appended, then `update_user_info(user_id, user_data)`
StoreReply(store, t, reply) ==
    UpdateUserInfo(store, t.user_id,
                   WithChat(t.user_data, t.chat_id, WithReply(t.conversation_messages, reply)))

\* http_trigger and handle_request up to the first suspension of
\* process_conversation: the user record is created if missing and read, the
\* chat is looked up or created and written, the user message is appended, the
\* orchestrator is called. A call that raises is answered 500 by http_trigger;
\* a call that returns at once has its reply stored
\* (given_chat_id = 0: the request carries no chat id)
HandlerCall(p, user_id, given_chat_id, user_message, usecase_type) ==
         /\ pc[p] \in {"idle", "done"}
         /\ UNCHANGED <<sideVars, configVars, events>>
         /\ LET ensured == EnsureUser(db, user_id)
                read == ensured[user_id]
                new_chat == given_chat_id = 0
                chat_id == IF new_chat THEN next_chat_id ELSE given_chat_id
            IN  IF ~new_chat /\ ~ChatFound(read, chat_id)
                THEN /\ Answer(p, ResultStatus(Result(404)))
                     /\ db' = ensured
                     /\ UNCHANGED <<next_chat_id, requests, orch, build_count,
                                    conversation_context>>
                ELSE LET old == IF new_chat THEN <<>> ELSE ChatMessages(read, chat_id)
                         created == IF new_chat THEN WithChat(read, chat_id, <<>>) ELSE read
                         stored == IF new_chat THEN PersistNewChat(ensured, user_id, created)
                                   ELSE ensured
                         conversation_messages == Append(old, UserTurn(user_message))
                         \* the appended message is visible through user_data as well
                         t == [NoTask EXCEPT
                                  !.user_id = user_id, !.chat_id = chat_id,
                                  !.new_chat = new_chat, !.user_message = user_message,
                                  !.usecase_type = usecase_type,
                                  !.user_data = WithChat(created, chat_id, conversation_messages),
                                  !.conversation_messages = conversation_messages]
                         s == BeginConversation([NoCall EXCEPT
                                                    !.usecase = usecase_type,
                                                    !.user_id = user_id,
                                                    !.session_id = chat_id,
                                                    !.conversation = conversation_messages])
                     IN  /\ new_chat => next_chat_id <= MaxChats
                         /\ requests < MaxRequests
                         /\ requests' = requests + 1
                         /\ next_chat_id' = IF new_chat THEN next_chat_id + 1 ELSE next_chat_id
                         /\ IF usecase_type \notin OrchestratorKeys
                            THEN /\ Answer(p, ResultStatus(Result(400)))
                                 /\ db' = stored
                                 /\ UNCHANGED <<orch, build_count, conversation_context>>
                            ELSE /\ orch' = s.orch
                                 /\ build_count' = s.build_count
                                 /\ conversation_context' = s.context
                                 /\ CASE s.pc = "raised" ->
                                            /\ Answer(p, ResultStatus(Raised))
                                            /\ db' = stored
                                      [] s.pc = "returned" ->
                                            /\ Answer(p, ResultStatus(Result(200)))
                                            /\ db' = StoreReply(stored, t, s.call.reply)
                                      [] OTHER ->
                                            /\ pc' = [pc EXCEPT ![p] = s.pc]
                                            /\ task' = [task EXCEPT ![p] = t]
                                            /\ call' = [call EXCEPT ![p] = s.call]
                                            /\ db' = stored

\* http_trigger hands the requests it does not reject to handle_request
HandleRequest(p, user_id, given_chat_id, user_message, usecase_type) ==
    /\ pc[p] \in {"idle", "done"}
    /\ RequestValid(user_id, user_message, FALSE, usecase_type)
    /\ HandlerCall(p, user_id, given_chat_id, user_message, usecase_type)

\* a chat request arrives: any user, any chat id or none, any message
ChatRequest(p) ==
    \E user_id \in Users, given_chat_id \in 0..(MaxChats + 1),
       user_message \in UserMessages, usecase_type \in {use_case} :
        HandleRequest(p, user_id, given_chat_id, user_message, usecase_type)

\* handle_request after process_conversation returned reply: the reply is
\* appended, the user record is written, the result goes back through http_trigger
HandleReply(p, reply) ==
    /\ pc[p] = "streaming"
    /\ db' = StoreReply(db, task[p], reply)
    /\ conversation_context' = NoContext
    /\ Answer(p, ResultStatus(Result(200)))
    /\ UNCHANGED <<sideVars, configVars, orch, build_count, next_chat_id, requests, events>>

\* the stream of a request ends: no suspension lies between the end of the
\* stream and the write of the user record
RunEnd(p) == HandleReply(p, EndReply(p))

\* the stream of a request raises: the error reply is stored as any other reply
RunError(p) == HandleReply(p, ErrorReply)

\* ------------------------------------------- the capability functions
(* The functions registered as agent tools (cio_functions, funds_functions, *)
(* policies_functions, news_functions, crm_functions,                       *)
(* crm_insurance_functions).  An outcome is "json" (a JSON string without   *)
(* error field), "json_error" (a JSON string with an error field) or        *)
(* "raised" (an exception leaves the function).                             *)

\* the search functions, each served by a lazily created singleton
SearchFunctions == {"search_cio", "search_funds_details", "search_insurance_policies"}

\* the functions reading the client data file
CrmFunctions ==
    {"load_from_crm_by_client_fullname", "load_from_crm_by_client_id",
     "get_client_policy_details"}

ToolFunctions == SearchFunctions \cup CrmFunctions \cup {"fetch_news"}

\* the states of the client data file: present and well-formed, missing, not
\* JSON, JSON of another shape than an object
DataFiles == {"ok", "missing", "malformed", "other"}

ToolEnvs ==
    [search_config : BOOLEAN, tracing : BOOLEAN, search : BOOLEAN, data_file : DataFiles]

\* `except Exception as e:` of the search and CRM functions: the error is
\* traced with trace_function_call (is_configured is always True), then the
\* JSON error is returned
ExceptBranch(env) == IF env.tracing THEN "json_error" ELSE "raised"

\* CIOSearchFunctions.__init__ (FundsSearchFunctions, InsurancePoliciesSearchFunctions):
\* TRUE iff it returns, FALSE iff it raises ValueError
SearchInit(env) == env.search_config

\* CIOSearchFunctions.search_cio and its two siblings
SearchMethod(env) ==
    IF ~env.tracing THEN ExceptBranch(env)
    ELSE IF ~env.search THEN ExceptBranch(env)
    ELSE "json"

\* the wrapper search_cio(query): get_cio_search_functions().search_cio(query)
SearchTool(env, created) ==
    IF ~created /\ ~SearchInit(env) THEN "raised" ELSE SearchMethod(env)

\* load_from_crm_by_client_fullname and the other functions on the data file;
\* found says whether the client (and policy) asked for is the one in the file
CrmTool(env, found) ==
    IF ~env.tracing THEN ExceptBranch(env)
    ELSE IF env.data_file = "missing" THEN "json_error"
    ELSE IF env.data_file = "malformed" THEN "json_error"
    ELSE IF env.data_file = "other" THEN ExceptBranch(env)
    ELSE IF found THEN "json" ELSE "json_error"

\* NewsSearchFunctions.fetch_news: its except branch traces nothing;
\* found says whether the page has a news table
NewsTool(env, found) ==
    IF ~env.tracing \/ ~env.search THEN "json_error"
    ELSE IF found THEN "json" ELSE "json_error"

\* the outcome of calling function f
ToolOutcome(f, env, instances, found) ==
    IF f \in SearchFunctions THEN SearchTool(env, f \in instances)
    ELSE IF f \in CrmFunctions THEN CrmTool(env, found)
    ELSE NewsTool(env, found)

\* an agent calls a capability function
CallTool ==
    /\ \E f \in ToolFunctions, found \in BOOLEAN :
         tool' = [tool EXCEPT
                    !.function = f,
                    !.result = ToolOutcome(f, tool.env, tool.instances, found),
                    !.instances = IF f \in SearchFunctions /\ SearchInit(tool.env)
                                  THEN @ \cup {f} ELSE @]
    /\ UNCHANGED <<configVars, orch, build_count, storeVars, requests, pc, task, call,
                   events, conversation_context, o1>>

\* a collaborator fails or recovers: the environment becomes another one of envs
SetEnvironment(envs) ==
    /\ \E env \in envs \ {tool.env} : tool' = [tool EXCEPT !.env = env]
    /\ UNCHANGED <<configVars, orch, build_count, storeVars, requests, pc, task, call,
                   events, conversation_context, o1>>

\* ------------------------------------------- the O1 executor loop
(* O1BankingOrchestrator.call_gpt4o.  A message of the list is the system   *)
(* prompt, an assistant message with its tool calls, or a tool message; a   *)
(* tool call is [id, name, arguments_ok], arguments_ok saying whether       *)
(* json.loads and the call with **arguments succeed.  The list is recorded  *)
(* up to MaxMessages messages; later appends are not recorded (truncated).  *)
(* completions is the number of completion requests issued, modulo 2: the   *)
(* code keeps no count, the parity tells one request from the next.         *)

MaxMessages == 4     \* messages of call_gpt4o that are recorded

\* the keys of get_FUNCTION_MAPPING()
FunctionMapping ==
    {"load_from_crm_by_client_fullname", "load_from_crm_by_client_id", "search_cio",
     "search_funds_details", "search_news"}

\* the function names a response of the model may carry: a mapped function,
\* the end marker, a name that is not mapped
CalledNames == {"search_cio", "instructions_complete", "transfer_funds"}

SystemMessage == [role |-> "system", tool_calls |-> <<>>, tool_call_id |-> <<>>]

\* response.choices[0].message.model_dump()
AssistantMessage(tool_calls) ==
    [role |-> "assistant", tool_calls |-> tool_calls, tool_call_id |-> <<>>]

\* {"role": "tool", "tool_call_id": tool.id, "content": ...}
ToolMessage(tool_call_id) ==
    [role |-> "tool", tool_calls |-> <<>>, tool_call_id |-> tool_call_id]

\* the responses of the model to the n-th message list: no tool call, one or two
Responses(n) ==
    LET tc(k, name, ok) == [id |-> <<n, k>>, name |-> name, arguments_ok |-> ok]
        one == { <<tc(1, name, ok)>> : name \in CalledNames, ok \in BOOLEAN }
        two == { <<tc(1, n1, TRUE), tc(2, n2, TRUE)>> : n1, n2 \in CalledNames }
    IN  {<<>>} \cup one \cup two

\* the try block of the loop over the tool calls succeeds: the arguments
\* parse and the function is mapped
Executes(tc) == tc.arguments_ok /\ tc.name \in FunctionMapping

\* the loop `for tool in response.choices[0].message.tool_calls` from the
\* k-th tool call on: [messages, returned]
RECURSIVE ForToolCalls(_, _, _)
ForToolCalls(tool_calls, k, messages) ==
    IF k > Len(tool_calls) THEN [messages |-> messages, returned |-> FALSE]
    ELSE IF tool_calls[k].name = "instructions_complete"
    THEN [messages |-> messages, returned |-> TRUE]
    ELSE IF Executes(tool_calls[k])
    THEN ForToolCalls(tool_calls, k + 1, Append(messages, ToolMessage(tool_calls[k].id)))
    ELSE ForToolCalls(tool_calls, k + 1, messages)

\* one iteration of `while True`: the message list after it, and whether
\* call_gpt4o returned
Iteration(messages, tool_calls) ==
    ForToolCalls(tool_calls, 1, Append(messages, AssistantMessage(tool_calls)))

\* process_conversation calls call_gpt4o(plan): the loop before its first
\* completion request
CallGpt4o(usecase_type) ==
    [NoLoop EXCEPT !.pc = "loop", !.usecase_type = usecase_type,
                   !.messages = <<SystemMessage>>]

\* an entry of the orchestrators map without an orchestrator
None == "None"

\* Handler.__init__ of the O1 handler: self.orchestrators
O1Orchestrators ==
    [fsi_insurance |-> None, fsi_banking |-> "O1BankingOrchestrator"]

\* the use case types the O1 handler is called with
O1UsecaseTypes == {"fsi_banking", "fsi_insurance", "fsi_travel"}

\* handle_request of the O1 handler from the recognition check on: 400 for a
\* type that is no key, else process_conversation of the entry of the map,
\* which raises AttributeError when the entry is None
O1HandleRequest ==
    /\ o1.pc # "loop"
    /\ \E usecase_type \in O1UsecaseTypes :
         o1' = IF usecase_type \notin DOMAIN O1Orchestrators
               THEN [NoLoop EXCEPT !.pc = "rejected", !.usecase_type = usecase_type]
               ELSE IF O1Orchestrators[usecase_type] = None
               THEN [NoLoop EXCEPT !.pc = "raised", !.usecase_type = usecase_type]
               ELSE CallGpt4o(usecase_type)
    /\ UNCHANGED <<configVars, orch, build_count, storeVars, requests, pc, task, call,
                   events, conversation_context, tool>>

\* the model answers the next completion request and the loop body runs
Completion ==
    /\ o1.pc = "loop"
    /\ \E tool_calls \in Responses(Len(o1.messages) + 1) :
         LET it == Iteration(o1.messages, tool_calls)
             fits == Len(it.messages) <= MaxMessages
         IN  o1' = [o1 EXCEPT
                      !.pc = IF it.returned THEN "returned" ELSE "loop",
                      !.messages = IF fits /\ ~o1.truncated THEN it.messages ELSE o1.messages,
                      !.truncated = o1.truncated \/ ~fits,
                      !.completions = (o1.completions + 1) % 2]
    /\ UNCHANGED <<configVars, orch, build_count, storeVars, requests, pc, task, call,
                   events, conversation_context, tool>>

\* -------------------------------------------------------- specifications
\* one call of process_conversation at a time, its events logged
ReduceNext ==
    \/ DirectCall("t1", {1})
    \/ ProcessConversationStart("t1")
    \/ OnEvent("t1", EventsOf(ClassOf(call["t1"].usecase)), TRUE)
    \/ StreamEnd("t1")
    \/ StreamRaise("t1")
    \/ StreamStall("t1")

ReduceSpec == Init /\ [][ReduceNext]_vars

\* concurrent calls of process_conversation on the same orchestrators
OrchNext ==
    \E p \in Procs :
        \/ DirectCall(p, 1..MaxChats)
        \/ ProcessConversationStart(p)
        \/ OnEvent(p, EventsOf(ClassOf(call[p].usecase)), FALSE)
        \/ StreamEnd(p)
        \/ StreamRaise(p)
        \/ StreamStall(p)

OrchSpec == Init /\ [][OrchNext]_vars

\* one call of process_conversation at a time, its events those of an engine run
EngineNext ==
    \/ CallWith("t1", EngineConversations, {1})
    \/ ProcessConversationStart("t1")
    \/ AgentReply("t1")
    \/ Delegation("t1")
    \/ StreamEnd("t1")

EngineSpec == Init /\ [][EngineNext]_vars

\* the capability functions called while their collaborators fail and recover
ToolNext == CallTool \/ SetEnvironment(ToolEnvs)

ToolSpec == Init /\ [][ToolNext]_vars

\* the O1 handler, the executor loop of its orchestrator and the model
\* answering it
O1Next == O1HandleRequest \/ Completion

O1Spec == Init /\ [][O1Next]_vars

\* the model answers every completion request
FairO1Spec == O1Spec /\ WF_vars(Completion)

\* the environments in which at most the tracing sink fails
TracingEnvs == { env \in ToolEnvs : [env EXCEPT !.tracing = TRUE] = WorkingEnv }

\* one call of process_conversation at a time while the tracing sink fails and
\* recovers; the workflow itself raises nothing
TraceNext ==
    \/ DirectCall("t1", {1})
    \/ ProcessConversationStart("t1")
    \/ OnEvent("t1", TurnEvents(ClassOf(call["t1"].usecase)), TRUE)
    \/ StreamEnd("t1")
    \/ SetEnvironment(TracingEnvs)

TraceSpec == Init /\ [][TraceNext]_vars

\* requests served concurrently by one Handler over one store
Next ==
    \E p \in Procs :
        \/ RejectRequest(p)
        \/ LoadHistoryRequest(p)
        \/ ChatRequest(p)
        \/ OnEvent(p, TurnEvents(ClassOf(call[p].usecase)), FALSE)
        \/ RunEnd(p)
        \/ RunError(p)

Spec == Init /\ [][Next]_vars

\* the requests handled one at a time: one task, each request answered before
\* the next is taken
SerialNext ==
    \/ RejectRequest("t1")
    \/ LoadHistoryRequest("t1")
    \/ ChatRequest("t1")
    \/ OnEvent("t1", TurnEvents(ClassOf(call["t1"].usecase)), FALSE)
    \/ RunEnd("t1")
    \/ RunError("t1")

SerialSpec == Init /\ [][SerialNext]_vars

\* the use case types handle_request is called with: the configured one and
\* one that is no key of the orchestrators map
UsecaseTypes == {use_case, "fsi_travel"}

\* handle_request called by a caller that does not screen the use case type
DirectRequest(p) ==
    \E user_id \in Users, given_chat_id \in 0..(MaxChats + 1),
       user_message \in UserMessages, usecase_type \in UsecaseTypes :
         HandlerCall(p, user_id, given_chat_id, user_message, usecase_type)

HandlerNext ==
    \E p \in Procs :
        \/ DirectRequest(p)
        \/ OnEvent(p, TurnEvents(ClassOf(call[p].usecase)), FALSE)
        \/ RunEnd(p)
        \/ RunError(p)

HandlerSpec == Init /\ [][HandlerNext]_vars

\* the orchestrator's own steps are taken when they are ready; the stream
\* does something (an event, its end, an error, or a stall) when it can
FairOrchSpec ==
    /\ OrchSpec
    /\ \A p \in Procs :
         /\ WF_vars(ProcessConversationStart(p))
         /\ WF_vars(OnEvent(p, EventsOf(ClassOf(call[p].usecase)), FALSE) \/ StreamEnd(p) \/ StreamRaise(p) \/ StreamStall(p))

\* ------------------------------------------------------------ properties
\* the text of the last event, in emission order, that carries non-empty text
RECURSIVE LastText(_)
LastText(evs) ==
    IF evs = <<>> THEN ""
    ELSE IF EventText(evs[Len(evs)]) # "" THEN EventText(evs[Len(evs)])
    ELSE LastText(SubSeq(evs, 1, Len(evs) - 1))

\* the run of task p ended normally and its reply was built from the events
Reduced(p) == pc[p] = "returned" /\ call[p].path = "reduced"

\* C1: when a workflow run has ended, the content of the returned reply is the
\* text of the last event that carries non-empty text, whatever the type of
\* that event.
C1_LastCandidateWins ==
    Reduced("t1") /\ LastText(events) # ""
        => call["t1"].reply.content = LastText(events)

\* C2: the returned reply never has empty content and has role assistant; when
\* the run ended and no event carried non-empty text (also when there was no
\* event at all), the content is the fallback apology.
C2_ReplyNeverEmpty ==
    pc["t1"] = "returned" =>
        /\ call["t1"].reply.content # ""
        /\ call["t1"].reply.role = "assistant"
        /\ (Reduced("t1") /\ LastText(events) = ""
                => call["t1"].reply.content = FallbackApology)

\* a run of two events, none with text, has ended in the fallback apology
C2_Witness ==
    /\ Reduced("t1")
    /\ Len(events) = 2
    /\ LastText(events) = ""
    /\ call["t1"].reply.content = FallbackApology

\* C3: process_conversation never raises: every call ends in a returned reply.
C3_NeverRaises == \A p \in Procs : pc[p] # "raised"

\* a call is running on the workflow of its orchestrator
Running(p) == pc[p] \in {"streaming", "stalled"}

\* C4: however the calls on a fresh orchestrator interleave, its workflow is
\* built at most once, exactly once as soon as a call got past the lazy
\* initialisation, every running call uses that one workflow, and no call fails
\* when the endpoint is configured.
C4_SingleBuild ==
    /\ \A uc \in Usecases :
         /\ build_count[uc] <= 1
         /\ orch[uc].initialized => build_count[uc] = 1 /\ orch[uc].workflow = 1
    /\ \A p \in Procs :
         /\ Running(p) => call[p].workflow = 1 /\ orch[call[p].usecase].workflow = 1
         /\ endpoint => pc[p] # "raised"

\* two calls run concurrently on the one workflow of the same orchestrator
C4_Witness ==
    /\ Running("t1") /\ Running("t2")
    /\ call["t1"].usecase = call["t2"].usecase
    /\ build_count[call["t1"].usecase] = 1
    /\ call["t1"].workflow = 1 /\ call["t2"].workflow = 1

\* C5: every call whose event stream has started eventually returns a reply.
C5_EveryCallReturns == \A p \in Procs : (pc[p] = "streaming") ~> (pc[p] = "returned")

\* the keys of the session map of a user in the store
Sessions(store, user_id) ==
    IF user_id \in DOMAIN store THEN DOMAIN store[user_id].chat_histories ELSE {}

\* the replies process_conversation can return to the handler of task p
RepliesOf(p) == {EndReply(p), ErrorReply}

\* C6: a chat request with a chat id that is not a key of the user's session
\* map is answered 404, invokes no orchestrator and creates no session: the
\* session map has the same keys afterwards.
C6_UnknownSession ==
    [][\A p \in Procs : pc[p] # "streaming" =>
        \A u \in Users : \A g \in (1..(MaxChats + 1)) \ Sessions(db, u) :
        \A m \in UserMessages :
          HandleRequest(p, u, g, m, use_case) =>
              /\ task'[p].status_code = 404
              /\ pc'[p] = "done" /\ call'[p] = NoCall
              /\ orch' = orch /\ build_count' = build_count
              /\ Sessions(db', u) = Sessions(db, u)
              /\ \A v \in DOMAIN db : db'[v] = db[v]]_vars

\* a request was answered 404 while the user has a session
C6_Witness ==
    \E p \in Procs, u \in Users :
        /\ pc[p] = "done" /\ task[p].status_code = 404
        /\ Sessions(db, u) # {}

\* C7: a chat request without chat id generates a new chat id and writes the
\* session with an empty conversation to the store before the orchestrator is
\* invoked: when the orchestrator call is pending, and when it has failed, the
\* store holds the session under the new id.
C7_PersistedBeforeCall ==
    [][\A p \in Procs : pc[p] # "streaming" =>
        \A u \in Users, m \in UserMessages :
          HandleRequest(p, u, 0, m, use_case) =>
              /\ next_chat_id' = next_chat_id + 1
              /\ next_chat_id \notin Sessions(db, u)
              /\ next_chat_id \in Sessions(db', u)
              /\ db'[u].chat_histories[next_chat_id].messages = <<>>
              /\ pc'[p] = "streaming" =>
                    /\ task'[p].chat_id = next_chat_id
                    /\ call'[p].chat_messages = <<ChatMessage("user", m, "user")>>]_vars

\* the orchestrator call of a new chat is pending and the store holds the
\* session with an empty conversation
C7_Witness ==
    \E p \in Procs :
        /\ pc[p] = "streaming" /\ task[p].new_chat
        /\ task[p].chat_id \in Sessions(db, task[p].user_id)
        /\ db[task[p].user_id].chat_histories[task[p].chat_id].messages = <<>>

\* C8: when a chat request without chat id of a user who had no sessions
\* succeeds, load_history for that user returns exactly one session, whose
\* messages are the user's message and the produced reply, in that order.
C8_SessionLifecycle ==
    [][\A p \in Procs : pc[p] = "streaming" =>
        \A reply \in RepliesOf(p) :
          (/\ HandleReply(p, reply)
           /\ task[p].new_chat
           /\ DOMAIN task[p].user_data.chat_histories = {task[p].chat_id}) =>
              LoadHistory(db', task[p].user_id) =
                  <<[name |-> task[p].chat_id,
                     messages |-> <<Msg("user", "user", task[p].user_message), reply>>]>>]_vars

\* a request was answered 200 and load_history returns one session of two messages
C8_Witness ==
    \E p \in Procs, u \in Users :
        /\ pc[p] = "done" /\ task[p].status_code = 200
        /\ u \in DOMAIN db
        /\ Len(LoadHistory(db, u)) = 1
        /\ Len(LoadHistory(db, u)[1].messages) = 2

\* the engine's message handed and the message persisted are the same message
SameMessage(chat_message, message) ==
    /\ chat_message.role = message.role
    /\ chat_message.text = message.content
    /\ chat_message.author_name = message.name

\* C9: after a successful turn the conversation persisted for the session is
\* the message sequence handed to the engine for that turn followed by the one
\* reply returned for it.
C9_PersistedIsHandedPlusReply ==
    [][\A p \in Procs : pc[p] = "streaming" =>
        \A reply \in RepliesOf(p) :
          HandleReply(p, reply) =>
              LET persisted == db'[task[p].user_id].chat_histories[task[p].chat_id].messages
                  handed == call[p].chat_messages
              IN  /\ Len(persisted) = Len(handed) + 1
                  /\ \A i \in 1..Len(handed) : SameMessage(handed[i], persisted[i])
                  /\ persisted[Len(persisted)] = reply]_vars

\* the second turn of a chat was persisted: two user messages, two replies
C9_Witness ==
    \E p \in Procs, u \in DOMAIN db :
        /\ pc[p] = "done" /\ task[p].status_code = 200
        /\ \E c \in Sessions(db, u) : Len(db[u].chat_histories[c].messages) = 4

\* user message, reply, user message, reply, ...
Alternates(messages) ==
    /\ Len(messages) % 2 = 0
    /\ \A i \in 1..Len(messages) :
         messages[i].role = IF i % 2 = 1 THEN "user" ELSE "assistant"

\* C10: every conversation in the store alternates user message and reply,
\* starting with a user message, so the conversation a handler appends a user
\* turn to never ends in a user message; this holds whatever requests were
\* served, failed or rejected.
C10_Alternation ==
    /\ \A u \in DOMAIN db : \A c \in Sessions(db, u) :
         Alternates(db[u].chat_histories[c].messages)
    /\ \A p \in Procs :
         pc[p] = "streaming" =>
            LET cm == task[p].conversation_messages
            IN  /\ Alternates(SubSeq(cm, 1, Len(cm) - 1))
                /\ cm[Len(cm)].role = "user"

\* a handler appended the user turn of a second turn while the store holds
\* the first turn of that chat
C10_Witness ==
    \E p \in Procs :
        /\ pc[p] = "streaming"
        /\ Len(task[p].conversation_messages) = 3
        /\ task[p].chat_id \in Sessions(db, task[p].user_id)
        /\ Len(db[task[p].user_id].chat_histories[task[p].chat_id].messages) = 2

\* the sequence a is a prefix of the sequence b
IsPrefix(a, b) == Len(a) <= Len(b) /\ a = SubSeq(b, 1, Len(a))

\* the conversation of session c of user u in the store
Conversation(store, u, c) == store[u].chat_histories[c].messages

\* every session of the store is still there after the step, its earlier
\* conversation a prefix of its later one
GrowsByAppending ==
    \A u \in DOMAIN db : \A c \in Sessions(db, u) :
        /\ c \in Sessions(db', u)
        /\ IsPrefix(Conversation(db, u, c), Conversation(db', u, c))

\* the user record in the store is still the one the request of task p read
\* (with the session a new chat wrote): nobody persisted since
ReadStillCurrent(p) ==
    LET t == task[p]
        cm == t.conversation_messages
    IN  /\ t.user_id \in DOMAIN db
        /\ db[t.user_id] = WithChat(t.user_data, t.chat_id, SubSeq(cm, 1, Len(cm) - 1))

\* C11 as stated: for any two successive persisted values of a session the
\* earlier is a prefix of the later, whatever handle_request calls are made.
C11_AppendOnly == [][GrowsByAppending]_vars

\* C11 amended: as long as no request in flight holds a copy of the user
\* record that another request has since overwritten (requests of a user are
\* serialized), every write leaves every session in place and extends its
\* conversation by appending.
C11_AppendOnlySerialized ==
    [][(db' # db /\ \A p \in Procs : pc[p] = "streaming" => ReadStillCurrent(p))
          => GrowsByAppending]_vars

\* both admitted turns went to one chat, one after the other, and the store
\* holds the first turn followed by the second
C11_Witness ==
    /\ requests = 2 /\ next_chat_id = 2
    /\ \A p \in Procs : pc[p] \in {"idle", "done"}
    /\ \E u \in DOMAIN db :
         /\ Sessions(db, u) = {1}
         /\ Len(Conversation(db, u, 1)) = 4

\* the conversation the request of task p read: its conversation without the
\* user turn the handler appended
ReadConversation(p) ==
    SubSeq(task[p].conversation_messages, 1, Len(task[p].conversation_messages) - 1)

\* C12: when two requests for the same session overlap (both read the same
\* conversation before either persists), the one that persists last overwrites
\* the whole conversation: the store then holds the conversation read followed
\* by the later writer's user message and reply, the earlier writer's turn is
\* gone (the conversation is no longer than before the write), and the later
\* writer is answered 200 like the earlier one.
C12_LastWriterWins ==
    [][\A p \in Procs : pc[p] = "streaming" =>
        \A reply \in RepliesOf(p) :
          LET t == task[p]
              read == ReadConversation(p)
              old == Conversation(db, t.user_id, t.chat_id)
              new == Conversation(db', t.user_id, t.chat_id)
          IN  (/\ HandleReply(p, reply)
               /\ t.chat_id \in Sessions(db, t.user_id)
               /\ IsPrefix(read, old) /\ Len(old) = Len(read) + 2) =>
                  /\ new = read \o <<Msg("user", "user", t.user_message), reply>>
                  /\ Len(new) = Len(old)
                  /\ SubSeq(old, Len(read) + 1, Len(old)) # SubSeq(new, Len(read) + 1, Len(new))
                        => ~IsPrefix(old, new)
                  /\ task'[p].status_code = 200]_vars

\* two turns were admitted to the one chat ever created, both requests have
\* been answered, and the store holds one turn only
C12_Witness ==
    /\ endpoint
    /\ requests = 2 /\ next_chat_id = 2
    /\ \A p \in Procs : pc[p] = "done" /\ task[p].status_code = 200
    /\ \E u \in DOMAIN db :
         /\ 1 \in Sessions(db, u)
         /\ Len(Conversation(db, u, 1)) = 2

\* C13: a request that persists writes back its own copy of the user's session
\* map: every session other than its own is afterwards exactly what the
\* request read at its start, so a turn another request appended to such a
\* session meanwhile is gone, and a session another request created meanwhile
\* is absent from the store.
C13_StaleSessionMap ==
    [][\A p \in Procs : pc[p] = "streaming" =>
        \A reply \in RepliesOf(p) :
          LET t == task[p]
              copy == t.user_data.chat_histories
          IN  HandleReply(p, reply) =>
                 /\ Sessions(db', t.user_id) = DOMAIN copy
                 /\ \A c \in DOMAIN copy \ {t.chat_id} :
                        Conversation(db', t.user_id, c) = copy[c].messages
                 /\ \A c \in Sessions(db, t.user_id) \ DOMAIN copy :
                        c \notin Sessions(db', t.user_id)]_vars

\* two chats were created and both requests answered 200, yet the store holds
\* one session only: the other was dropped by the write of a stale session map
C13_Witness ==
    /\ endpoint
    /\ requests = 2 /\ next_chat_id = 3
    /\ \A p \in Procs : pc[p] = "done" /\ task[p].status_code = 200
    /\ \E u \in DOMAIN db :
         /\ Cardinality(Sessions(db, u)) = 1
         /\ \A c \in Sessions(db, u) : Len(Conversation(db, u, c)) = 2

\* C14: the tracing conversation context a call of process_conversation set
\* (conversation id, user id, mode) is the context in place for as long as the
\* call is in progress: no other call overwrites or clears it.
C14_ContextIsolated ==
    \A p \in Procs : Running(p) => conversation_context = ContextOf(call[p])

\* the list data holds one {name, messages} entry for every session of user u
\* in the store, and no other entry
ListsSessions(data, store, u) ==
    /\ Len(data) = Cardinality(Sessions(store, u))
    /\ { data[i].name : i \in 1..Len(data) } = Sessions(store, u)
    /\ \A i \in 1..Len(data) : data[i].messages = Conversation(store, u, data[i].name)

\* C15 as stated: a load_history request returns one entry for every session
\* of the user and no other, invokes no orchestrator, and leaves the store
\* exactly as it was.
C15_StoreUntouched ==
    [][\A p \in Procs : pc[p] # "streaming" =>
        \A u \in Users :
          HandleLoadHistory(p, u, use_case) =>
              /\ ListsSessions(LoadHistory(db', u), db, u)
              /\ orch' = orch /\ build_count' = build_count
              /\ db' = db]_vars

\* C15 amended: a load_history request returns one entry for every session of
\* the user and no other, invokes no orchestrator, and leaves every user
\* record of the store as it was; its only write is the empty record created
\* for a user id that had none.
C15_LoadHistoryReadOnly ==
    [][\A p \in Procs : pc[p] # "streaming" =>
        \A u \in Users :
          HandleLoadHistory(p, u, use_case) =>
              /\ ListsSessions(LoadHistory(db', u), db', u)
              /\ Sessions(db', u) = Sessions(db, u)
              /\ \A v \in DOMAIN db : db'[v] = db[v]
              /\ DOMAIN db' = DOMAIN db \cup {u}
              /\ u \notin DOMAIN db => db'[u] = [chat_histories |-> << >>]
              /\ orch' = orch /\ build_count' = build_count
              /\ conversation_context' = conversation_context
              /\ next_chat_id' = next_chat_id
              /\ pc'[p] = "done" /\ call'[p] = NoCall
              /\ task'[p].status_code = 200]_vars

\* no chat turn was admitted yet and a request was answered 200: a
\* load_history request, which left the record of a user without sessions
C15_Witness ==
    \E p \in Procs, u \in DOMAIN db :
        /\ requests = 0
        /\ pc[p] = "done" /\ task[p].status_code = 200
        /\ LoadHistory(db, u) = <<>>

\* use-case identifiers no orchestrator is selected for: one that is a key of
\* Handler.orchestrators but has no store container, one that is no key
UnknownUsecases == {"deep_research", "unknown"}

\* what C16 says of the step that serves a request with an unknown use case
RejectedUntouched(p) ==
    /\ task'[p].status_code = 400
    /\ pc'[p] = "done" /\ call'[p] = NoCall
    /\ orch' = orch /\ build_count' = build_count
    /\ conversation_context' = conversation_context

Producer(e) ==
    IF e.shape = "conversation" /\ LastAssistantIndex(e.conv) # 0
    THEN Or(e.conv[LastAssistantIndex(e.conv)].author_name, e.src)
    ELSE e.src

\* C17: the author name of the returned reply is the name of an agent of the
\* workflow; when the content is the text of an event, the author is the agent
\* that produced that same event; when no event carried text, the author is
\* the coordinator of the workflow.
C17_AuthorProducedText ==
    pc["t1"] = "returned" =>
        LET reply == call["t1"].reply
            class == ClassOf(call["t1"].usecase)
        IN  /\ reply.name \in AgentsOf(class)
            /\ Reduced("t1") /\ reply.content # FallbackApology =>
                  \E i \in 1..Len(events) :
                      /\ EventText(events[i]) = reply.content
                      /\ Producer(events[i]) # "" => reply.name = Producer(events[i])
            /\ LastText(events) = "" => reply.name = CoordinatorOf(class)

\* the number of user messages of a message history
UserCount(conv) == Cardinality({ i \in 1..Len(conv) : conv[i].role = "user" })

\* C18: in a run whose message history holds at least 10 user messages, no
\* event follows an event that carried a reply, whichever agent produced it:
\* the run ends with the first reply and no exchange continues past it.
C18_TerminationBound ==
    pc["t1"] \in {"streaming", "returned"}
        /\ UserCount(call["t1"].chat_messages) >= TerminationBound
    => \A i \in 1..(Len(events) - 1) : EventText(events[i]) = ""

\* a run on a history of exactly 10 user messages delegated, then produced a
\* reply of a specialist, and has returned that reply
C18_Witness ==
    /\ Reduced("t1")
    /\ UserCount(call["t1"].chat_messages) = TerminationBound
    /\ Len(events) = 2
    /\ EventText(events[1]) = "" /\ EventText(events[2]) # ""
    /\ call["t1"].reply.name = "bank-crm-agent"

\* the roles the engine accepts
EngineRoles == {"user", "assistant", "system"}

\* the stored message has one of the roles the engine accepts
HasEngineRole(m) == m.role \in EngineRoles

\* C21: when process_conversation starts a run, every message it hands to the
\* engine has a role in {user, assistant, system}, and only stored messages
\* with such a role are handed over: messages with another role or without a
\* role are filtered out.
C21_RolesFiltered ==
    [][pc["t1"] = "call" /\ pc'["t1"] = "streaming" =>
          /\ \A i \in 1..Len(call'["t1"].chat_messages) :
                call'["t1"].chat_messages[i].role \in EngineRoles
          /\ Len(call'["t1"].chat_messages)
                <= Len(SelectSeq(call["t1"].conversation, HasEngineRole))]_vars

\* C22: whatever fails among its collaborators (configuration, data file,
\* search, tracing), a capability function returns a JSON string and raises
\* nothing; when a collaborator it needs has failed, the string carries an
\* error field.
C22_NeverRaises ==
    [][\A f \in ToolFunctions :
          tool'.function = f /\ tool'.env = tool.env /\ tool' # tool =>
             /\ tool'.result \in {"json", "json_error"}
             /\ (~tool.env.tracing => tool'.result = "json_error")
             /\ (f \in SearchFunctions /\ ~tool.env.search => tool'.result = "json_error")
             /\ (f \in SearchFunctions /\ f \notin tool.instances /\ ~tool.env.search_config
                    => tool'.result = "json_error")
             /\ (f \in CrmFunctions /\ tool.env.data_file # "ok"
                    => tool'.result = "json_error")]_vars

\* final_response and responding_agent after the events evs, in emission order
RECURSIVE ReduceAll(_, _)
ReduceAll(class, evs) ==
    IF evs = <<>> THEN Acc("", CoordinatorOf(class))
    ELSE ReduceEvent(class, ReduceAll(class, SubSeq(evs, 1, Len(evs) - 1)), evs[Len(evs)])

\* C23: the reply of a call whose workflow run raised nothing is the reply
\* reduced from the events of the run, whether the tracing sink worked or
\* threw while the context was set, the span opened or its attributes set.
C23_TracingNeverChangesReply ==
    pc["t1"] = "returned" /\ call["t1"].path # "no_message" =>
        call["t1"].reply = ReducedReply(ReduceAll(ClassOf(call["t1"].usecase), events))

\* the request lacks the user id, the message (while load_history is not
\* true) or the use case
MissingField(user_id, user_message, load_history, usecase_type) ==
    user_id = "" \/ (~load_history /\ user_message = "") \/ usecase_type = ""

\* C24: the entry point answers 400, with the store and the handler untouched,
\* every request that lacks the user id, the message (while load_history is
\* not true) or the use case; it answers 404 a chat request whose session the
\* handler does not find, 500 a request whose handler raises, and 200 exactly
\* the requests whose handler returned a result with status 200.
C24_StatusMapping ==
    [][\A p \in Procs :
          /\ pc[p] = "streaming" /\ pc'[p] = "done" => task'[p].status_code = 200
          /\ pc[p] # "streaming" =>
               /\ RejectRequest(p) =>
                     /\ RejectedUntouched(p)
                     /\ \A u \in Users \cup {""}, m \in UserMessages \cup {""},
                           lh \in BOOLEAN, uc \in {use_case, ""} :
                             MissingField(u, m, lh, uc) => ~RequestValid(u, m, lh, uc)
               /\ \A u \in Users :
                     \A m \in UserMessages, g \in 0..(MaxChats + 1) :
                        HandleRequest(p, u, g, m, use_case) =>
                           LET found == g = 0 \/ (u \in DOMAIN db /\ g \in Sessions(db, u))
                               raises == EnsureInitializedRaises(use_case)
                           IN  /\ ~found => task'[p].status_code = 404
                               /\ found /\ raises => task'[p].status_code = 500
                               /\ found /\ ~raises /\ pc'[p] = "done"
                                     => task'[p].status_code = 200]_vars

\* one request was answered 404 for its unknown session and another 500
\* because its handler raised
C24_Witness ==
    \E p, q \in Procs :
        /\ pc[p] = "done" /\ task[p].status_code = 404
        /\ pc[q] = "done" /\ task[q].status_code = 500

\* the tool calls of the recorded messages other than instructions_complete
RecordedToolCalls ==
    { tc \in UNION { { m.tool_calls[k] : k \in 1..Len(m.tool_calls) } :
                        m \in { o1.messages[i] : i \in 1..Len(o1.messages) } } :
        tc.name # "instructions_complete" }

\* C25: between two completion requests every tool call other than
\* instructions_complete, failed or not, has exactly one tool message with its
\* tool_call_id in the message list.
C25_ToolCallAnswered ==
    ~o1.truncated =>
        \A tc \in RecordedToolCalls :
            Cardinality({ i \in 1..Len(o1.messages) :
                            o1.messages[i].role = "tool"
                            /\ o1.messages[i].tool_call_id = tc.id }) = 1

\* C30: call_gpt4o, once called, eventually returns, whatever the responses of
\* the model.
C30_LoopReturns == (o1.pc = "loop") ~> (o1.pc = "returned")

\* C26: a call of handle_request that is answered 400 (use case type not
\* recognised) or 404 (unknown session) leaves the store as it was: the user
\* has the same sessions and every stored record is unchanged.
C26_RejectedLeavesStore ==
    [][\A p \in Procs : pc[p] # "streaming" =>
        \A u \in Users, g \in 0..(MaxChats + 1), m \in UserMessages,
           uc \in UsecaseTypes :
             (HandlerCall(p, u, g, m, uc) /\ task'[p].status_code \in {400, 404})
                => /\ Sessions(db', u) = Sessions(db, u)
                   /\ \A v \in DOMAIN db : db'[v] = db[v]]_vars

\* C27: a request whose use case type is a key of the handler's orchestrators
\* map finds an orchestrator there: the call of its process_conversation does
\* not fail for the lack of one.
C27_EveryKeyHasOrchestrator ==
    o1.usecase_type \in DOMAIN O1Orchestrators => o1.pc # "raised"

\* the step changes at most session s of user u: every other session of every
\* user keeps its conversation, and no session id other than s is new
OnlySession(u, s) ==
    /\ \A v \in DOMAIN db : v \in DOMAIN db'
    /\ \A v \in DOMAIN db' :
         /\ Sessions(db', v) \subseteq Sessions(db, v) \cup (IF v = u THEN {s} ELSE {})
         /\ \A c \in Sessions(db, v) :
              (v # u \/ c # s) =>
                 /\ c \in Sessions(db', v)
                 /\ Conversation(db', v, c) = Conversation(db, v, c)

\* C28: with requests handled one at a time, every step of a turn on session s
\* (the start of the turn, which may create s, and the storing of the reply)
\* changes only session s: the other sessions keep their conversations and
\* the only session id that can be new is s.
C28_TurnChangesOnlyItsSession ==
    [][\A p \in Procs :
          /\ pc[p] = "streaming" /\ pc'[p] # "streaming"
                => OnlySession(task[p].user_id, task[p].chat_id)
          /\ pc[p] # "streaming" =>
                \A u \in Users, g \in 0..(MaxChats + 1), m \in UserMessages :
                    HandleRequest(p, u, g, m, use_case)
                       => OnlySession(u, IF g = 0 THEN next_chat_id ELSE g)]_vars

\* a turn on session 2 has been answered 200 and stored while session 1 holds
\* an earlier conversation
C28_Witness ==
    /\ pc["t1"] = "done" /\ task["t1"].status_code = 200
    /\ "u1" \in DOMAIN db /\ Sessions(db, "u1") = {1, 2}
    /\ Len(Conversation(db, "u1", 1)) >= 2
    /\ Len(Conversation(db, "u1", 2)) >= 2

====
